---- MODULE Spec2Model ----
(***************************************************************************)
(* A model of the easyPay client (src/src/core/easy-pay.ts) and of the     *)
(* request schema it validates with (src/unnamed/part_001).                *)
(*                                                                         *)
(* One client instance is modelled.  Every public operation is a call in   *)
(* a slot; a call advances from one suspension point (an awaited network   *)
(* round trip, the awaited retry delay, the await of a nested call) to the *)
(* next in one action, which is how the single-threaded runtime executes   *)
(* it.  try/catch/finally is modelled by a stack of frames that a          *)
(* completed or raising call unwinds, one frame per action.                *)
(*                                                                         *)
(* Spec explores one call on a new client, SpecSequential one call after   *)
(* another on the same client, SpecConcurrent two calls that interleave.   *)
(*                                                                         *)
(* Text is a sequence of fragments: a template literal concatenates the    *)
(* fragments of its parts.  The JavaScript value undefined is the atom     *)
(* UNDEF; interpolating it into a template yields the text "undefined".    *)
(***************************************************************************)
EXTENDS Integers, Sequences, FiniteSets, TLC

VARIABLES config, client, calls, slots

vars == <<config, client, calls, slots>>

(***************************************************************************)
(* Bounds of the model.                                                    *)
(***************************************************************************)
MaxRetryBound == 2

(***************************************************************************)
(* Values.                                                                 *)
(***************************************************************************)
UNDEF == "<undefined>"

Range(f) == {f[i] : i \in DOMAIN f}

Interp(v) == IF v = UNDEF THEN "undefined" ELSE v

UndefMsg == <<UNDEF>>

IsDefinedString(m) == UNDEF \notin Range(m)

Contains(m, frag) == frag \in Range(m)

DefaultMaxRetry == 3

Methods == {"telebirr", "cbebirr", "ebirr", "mpesa", "chapa"}

ProviderMsgs == {"declined", UNDEF}

Refs == {"ref_A"}

NetworkError(r) == <<IF r.message = UNDEF THEN "Unknown axios error" ELSE r.message>>

TypeError == <<"Cannot read properties of undefined">>

HookError == <<"hook raised">>

(***************************************************************************)
(* number.toString() for the non-negative integers the model uses.         *)
(***************************************************************************)
DigitChar(d) ==
    CASE d = 0 -> "0" [] d = 1 -> "1" [] d = 2 -> "2" [] d = 3 -> "3"
      [] d = 4 -> "4" [] d = 5 -> "5" [] d = 6 -> "6" [] d = 7 -> "7"
      [] d = 8 -> "8" [] d = 9 -> "9"

RECURSIVE NumberToString(_)
NumberToString(n) ==
    IF n < 10 THEN DigitChar(n)
    ELSE NumberToString(n \div 10) \o DigitChar(n % 10)

(***************************************************************************)
(* Results (EasyPayResponse).  data is null, undefined (the field is       *)
(* missing) or an object; the fields an object does not carry are UNDEF.   *)
(***************************************************************************)
NullData ==
    [kind |-> "null", amount |-> UNDEF, txRef |-> UNDEF, createdAt |-> UNDEF,
     status |-> UNDEF, checkoutUrl |-> UNDEF]

NoResult == [success |-> FALSE, message |-> <<>>, data |-> NullData]

(***************************************************************************)
(* A provider response, one shape for the four endpoints: kind is "body"   *)
(* (a parsed JSON body) or "transport" (axios raised); dataKind is         *)
(* "absent" when the body has no data block, else the nested data status   *)
(* ("present" where the block has none); ref is trx_ref (verification),    *)
(* data.meta.ref_id (charge) or data.tx_ref (lookup); reference is         *)
(* data.reference (lookup); num is the numeric data.amount (lookup).       *)
(***************************************************************************)
NoResp ==
    [kind |-> "none", status |-> UNDEF, message |-> UNDEF, dataKind |-> "absent",
     amount |-> UNDEF, num |-> 0, ref |-> UNDEF, reference |-> UNDEF,
     created_at |-> UNDEF, checkout_url |-> UNDEF]

Transport == [NoResp EXCEPT !.kind = "transport", !.message = "Network Error"]

TransportNoMessage == [NoResp EXCEPT !.kind = "transport"]

Transports == {Transport, TransportNoMessage}

Body(status, message) == [NoResp EXCEPT !.kind = "body", !.status = status, !.message = message]

(***************************************************************************)
(* An outbound request: the endpoint (named after the client's url field), *)
(* the credential of its Authorization header ("publicKey", "secretKey",   *)
(* or UNDEF for a secret key the client does not have) and the form fields *)
(* the claims speak of.                                                    *)
(***************************************************************************)
NoSent ==
    [url |-> UNDEF, auth |-> UNDEF, reference |-> UNDEF, payment_method |-> UNDEF,
     tx_ref |-> UNDEF, amount |-> UNDEF, mobile |-> <<>>, currency |-> UNDEF,
     email |-> UNDEF, first_name |-> UNDEF, last_name |-> UNDEF, meta |-> <<>>]

NoInfo == [amount |-> UNDEF, txRef |-> UNDEF, createdAt |-> UNDEF]

(* The metadata map of a request: an object with one key, or no map.       *)
NoMeta == [orderId |-> UNDEF]

OrderMeta == [orderId |-> "A1"]

JsonStringify(meta) == <<"{\"orderId\":\"", meta.orderId, "\"}">>

(* A request: amountType is typeof request.amount, "undefined" when the    *)
(* caller gave none.                                                       *)
NoRequest ==
    [mobile |-> <<>>, paymentType |-> UNDEF, amount |-> 0, amountType |-> "undefined",
     txRef |-> UNDEF, email |-> UNDEF, first_name |-> UNDEF, last_name |-> UNDEF,
     meta |-> NoMeta]

NoPaymentData ==
    [amount |-> UNDEF, mobile |-> <<>>, currency |-> UNDEF,
     payment_method |-> UNDEF, tx_ref |-> UNDEF, email |-> UNDEF,
     first_name |-> UNDEF, last_name |-> UNDEF, meta |-> NoMeta]

(***************************************************************************)
(* A call: the operation, where it is suspended, its locals, and a history *)
(* of what it has done (requests issued, hooks invoked, delays waited).    *)
(***************************************************************************)
IdleCall ==
    [op |-> "none", pc |-> "idle", stack |-> <<>>,
     req |-> NoRequest, valid |-> FALSE, pd |-> NoPaymentData,
     refId |-> UNDEF, method |-> UNDEF, retries |-> 0,
     result |-> NoResult, exc |-> <<>>,
     nHosted |-> 0, nCharge |-> 0, nVerify |-> 0, nLookup |-> 0,
     nDelay |-> 0, nPending |-> 0, nOnSuccess |-> 0, nOnFailure |-> 0,
     info |-> NoInfo, lastResp |-> NoResp, chargeResp |-> NoResp,
     polling |-> FALSE, hostedOk |-> FALSE, chargeOk |-> FALSE, pollOk |-> FALSE,
     lookupOk |-> FALSE, secretSent |-> FALSE, sent |-> NoSent]

(***************************************************************************)
(* The client's configuration (EasyPaymentProps after the constructor).    *)
(* maxRetry is a number or absent; the hooks are caller-supplied functions *)
(* that return or raise.                                                   *)
(***************************************************************************)
DefaultPaymentOptions == <<"telebirr", "cbebirr", "ebirr", "mpesa", "chapa">>

PaymentOptionLists == {DefaultPaymentOptions, <<"chapa", "mpesa">>}

Configs ==
    [secretKey : BOOLEAN,
     paymentOptions : PaymentOptionLists,
     generateRefId : BOOLEAN,
     hasMaxRetry : BOOLEAN,
     maxRetry : 0..MaxRetryBound,
     onSuccessRaises : BOOLEAN,
     onFailureRaises : BOOLEAN]

SecretKey == IF config.secretKey THEN "secretKey" ELSE UNDEF

MaxRetry == IF config.hasMaxRetry THEN config.maxRetry ELSE DefaultMaxRetry

Init ==
    /\ slots = {1}
    /\ config \in {cf \in Configs : ~cf.hasMaxRetry => cf.maxRetry = 0}
    /\ client = [isLoading |-> FALSE, error |-> UndefMsg,
                 paymentOption |-> IF config.paymentOptions = <<>> THEN "chapa"
                                   ELSE config.paymentOptions[1]]
    /\ calls = [c \in slots |-> IdleCall]

(***************************************************************************)
(* Control: a step of a call works on s = [cl, ca], the client's fields    *)
(* and the call's record.  pc "returned" is a frame returning a Result to  *)
(* its caller, pc "raised" an exception on its way up.                     *)
(***************************************************************************)
Return(s, r) == [s EXCEPT !.ca.pc = "returned", !.ca.result = r]

Throw(s, e) == [s EXCEPT !.ca.pc = "raised", !.ca.exc = e]

FailResultNoData(m) ==
    [success |-> FALSE, message |-> m, data |-> [NullData EXCEPT !.kind = "undefined"]]

FailResult(m) == [success |-> FALSE, message |-> m, data |-> NullData]

FullMessage(message, orig) == message \o <<": ">> \o orig

HandleErrorUnrecorded(s, fullMessage) ==
    LET s1 == [s EXCEPT !.ca.nOnFailure = @ + 1]
    IN  IF config.onFailureRaises
        THEN Throw(s1, HookError)
        ELSE Return(s1, FailResult(fullMessage))

HandleError(s, fullMessage) ==
    LET s1 == [s EXCEPT !.cl.error = fullMessage, !.ca.nOnFailure = @ + 1]
    IN  IF config.onFailureRaises
        THEN Throw(s1, HookError)
        ELSE Return(s1, FailResult(fullMessage))

CatchFinally(s, prefix, restoresLoading) ==
    LET a == IF s.ca.pc = "raised"
             THEN HandleError(s, FullMessage(<<prefix>>, s.ca.exc))
             ELSE s
    IN  IF restoresLoading THEN [a EXCEPT !.cl.isLoading = FALSE] ELSE a

ExitFrame(f, s) ==
    CASE f = "verifyPayment" ->
            CatchFinally(s, "Error during payment verification", TRUE)
      [] f = "verifyTransaction" ->
            CatchFinally(s, "Error during transaction verification", TRUE)
      [] f = "initiatePayment" ->
            CatchFinally(s, "Error during transaction", FALSE)
      [] f = "createPayment" ->
            CatchFinally(s, "Error while creating payment", TRUE)

(* A frame that completes settles its promise; the frame that awaits it    *)
(* resumes in a later turn of the runtime: pc "resumeReturn" and           *)
(* "resumeThrow" are that suspension, the outcome waiting in result / exc. *)
Unwind(s) ==
    IF s.ca.pc \notin {"returned", "raised"} \/ s.ca.stack = <<>>
    THEN s
    ELSE LET a == ExitFrame(Head(s.ca.stack), [s EXCEPT !.ca.stack = Tail(@)])
         IN  IF a.ca.stack = <<>> THEN a
             ELSE [a EXCEPT !.ca.pc = IF a.ca.pc = "returned" THEN "resumeReturn"
                                      ELSE "resumeThrow"]

Apply(c, s) ==
    LET u == Unwind(s)
    IN  /\ client' = u.cl
        /\ calls' = [calls EXCEPT ![c] = u.ca]
        /\ UNCHANGED <<config, slots>>

State(c) == [cl |-> client, ca |-> calls[c]]

(* The inputs the environment offers: all of them to a client with one     *)
(* operation at a time, a few of them where operations interleave.         *)
Inputs(all, few) == IF Cardinality(slots) > 1 THEN few ELSE all

Resume(c) ==
    /\ calls[c].pc \in {"resumeReturn", "resumeThrow"}
    /\ Apply(c, [State(c) EXCEPT !.ca.pc = IF @ = "resumeReturn" THEN "returned"
                                           ELSE "raised"])

(***************************************************************************)
(* verifyPayment: the polling loop.                                        *)
(***************************************************************************)
VerifyResponses ==
    {[Body(st, m) EXCEPT !.dataKind = dk, !.amount = a, !.ref = "ref_A",
                         !.created_at = "t1"] :
        st \in {"success", "failed"}, m \in ProviderMsgs,
        dk \in {"success", "failed"}, a \in {"300.00", "750.00"}}
    \cup
    {[Body(st, "Payment is pending") EXCEPT !.dataKind = "pending", !.amount = "300.00",
                                            !.ref = "ref_A", !.created_at = "t1"] :
        st \in {"success", "failed"}}
    \cup
    {[Body(st, m) EXCEPT !.ref = "ref_A"] :
        st \in {"success", "failed"}, m \in ProviderMsgs}
    \cup
    Transports

ConcurrentVerifyResponses ==
    {r \in VerifyResponses :
        \/ r = Transport
        \/ /\ r.kind = "body" /\ r.message # UNDEF /\ r.amount = "300.00"
           /\ \/ r.status = "success" /\ r.dataKind = "success"
              \/ r.status = "failed" /\ r.dataKind \in {"failed", "pending"}}

PendingResponse == CHOOSE r \in ConcurrentVerifyResponses : r.dataKind = "pending"

VerifyRequest(refId, paymentMethod) ==
    [NoSent EXCEPT !.url = "chapaVerifyUrl", !.auth = "publicKey",
                   !.reference = refId, !.payment_method = paymentMethod]

VerifyLoopOffByOne(s) ==
    IF s.ca.retries <= MaxRetry
    THEN [s EXCEPT !.ca.pc = "awaitVerify", !.ca.nVerify = @ + 1,
                   !.ca.sent = VerifyRequest(s.ca.refId, s.ca.method)]
    ELSE HandleError(s, <<"Payment verification timed out">>)

VerifyLoop(s) ==
    IF s.ca.retries < MaxRetry
    THEN [s EXCEPT !.ca.pc = "awaitVerify", !.ca.nVerify = @ + 1,
                   !.ca.sent = VerifyRequest(s.ca.refId, s.ca.method)]
    ELSE HandleError(s, <<"Payment verification timed out">>)

VerifyStart(s, refId, paymentMethod) ==
    VerifyLoop([s EXCEPT !.cl.isLoading = TRUE, !.ca.polling = TRUE,
                         !.ca.stack = <<"verifyPayment">> \o @,
                         !.ca.refId = refId, !.ca.method = paymentMethod,
                         !.ca.retries = 0])

VerifiedResult(r) ==
    [success |-> TRUE, message |-> <<"Payment verified successfully">>,
     data |-> [kind |-> "object", amount |-> r.amount, txRef |-> r.ref,
               createdAt |-> r.created_at, status |-> r.status,
               checkoutUrl |-> UNDEF]]

OnSuccessHook(s, info) ==
    LET s1 == [s EXCEPT !.ca.nOnSuccess = @ + 1, !.ca.info = info]
    IN  IF config.onSuccessRaises THEN Throw(s1, HookError) ELSE s1

IsPendingAnyFailure(r) == r.status # "success"

IsPending(r) == r.dataKind = "pending"

OnVerifyResponseNoDelay(s0, r) ==
    LET s == [s0 EXCEPT !.ca.lastResp = r]
    IN  IF r.kind = "transport" THEN Throw(s, NetworkError(r))
        ELSE IF r.status = "success"
        THEN LET s1 == [s EXCEPT !.cl.error = UndefMsg, !.ca.pollOk = TRUE]
             IN  IF r.dataKind = "absent" THEN Throw(s1, TypeError)
                 ELSE LET s2 == OnSuccessHook(s1,
                                  [amount |-> r.amount, txRef |-> r.ref,
                                   createdAt |-> r.created_at])
                      IN  IF s2.ca.pc = "raised" THEN s2
                          ELSE Return(s2, VerifiedResult(r))
        ELSE IF ~IsPending(r)
        THEN HandleError(s, <<"Payment verification failed: ", Interp(r.message)>>)
        ELSE VerifyLoop([s EXCEPT !.ca.retries = @ + 1, !.ca.nPending = @ + 1])

OnVerifyResponseNoLastDelay(s0, r) ==
    LET s == [s0 EXCEPT !.ca.lastResp = r]
    IN  IF r.kind = "transport" THEN Throw(s, NetworkError(r))
        ELSE IF r.status = "success"
        THEN LET s1 == [s EXCEPT !.cl.error = UndefMsg, !.ca.pollOk = TRUE]
             IN  IF r.dataKind = "absent" THEN Throw(s1, TypeError)
                 ELSE LET s2 == OnSuccessHook(s1,
                                  [amount |-> r.amount, txRef |-> r.ref,
                                   createdAt |-> r.created_at])
                      IN  IF s2.ca.pc = "raised" THEN s2
                          ELSE Return(s2, VerifiedResult(r))
        ELSE IF ~IsPending(r)
        THEN HandleError(s, <<"Payment verification failed: ", Interp(r.message)>>)
        ELSE IF s.ca.retries + 1 >= MaxRetry
        THEN HandleError([s EXCEPT !.ca.retries = @ + 1, !.ca.nPending = @ + 1],
                         <<"Payment verification timed out">>)
        ELSE [s EXCEPT !.ca.retries = @ + 1, !.ca.nPending = @ + 1,
                       !.ca.pc = "delay"]

OnVerifyResponse(s0, r) ==
    LET s == [s0 EXCEPT !.ca.lastResp = r]
    IN  IF r.kind = "transport" THEN Throw(s, NetworkError(r))
        ELSE IF r.status = "success"
        THEN LET s1 == [s EXCEPT !.cl.error = UndefMsg, !.ca.pollOk = TRUE]
             IN  IF r.dataKind = "absent" THEN Throw(s1, TypeError)
                 ELSE LET s2 == OnSuccessHook(s1,
                                  [amount |-> r.amount, txRef |-> r.ref,
                                   createdAt |-> r.created_at])
                      IN  IF s2.ca.pc = "raised" THEN s2
                          ELSE Return(s2, VerifiedResult(r))
        ELSE IF ~IsPending(r)
        THEN HandleError(s, <<"Payment verification failed: ", Interp(r.message)>>)
        ELSE [s EXCEPT !.ca.retries = @ + 1, !.ca.nPending = @ + 1,
                       !.ca.pc = "delay"]

VerifyPayment(c) ==
    /\ calls[c].pc = "idle"
    /\ \E refId \in Refs, m \in {"telebirr", "chapa"} :
          Apply(c, VerifyStart([State(c) EXCEPT !.ca.op = "verifyPayment"], refId, m))

VerifyResponse(c) ==
    /\ calls[c].pc = "awaitVerify"
    /\ \E r \in Inputs(VerifyResponses, ConcurrentVerifyResponses) :
          Apply(c, OnVerifyResponse(State(c), r))

DelayElapsed(c) ==
    /\ calls[c].pc = "delay"
    /\ Apply(c, VerifyLoop([State(c) EXCEPT !.ca.nDelay = @ + 1]))

(***************************************************************************)
(* verifyTransaction: one lookup with the secret credential.               *)
(***************************************************************************)
LookupResponses ==
    {[Body(st, m) EXCEPT !.dataKind = "present", !.num = 300, !.ref = tx,
                         !.reference = "chapa_ref", !.created_at = "t1"] :
        st \in {"success", "failed", "pending"}, m \in ProviderMsgs,
        tx \in {"ref_A"}}
    \cup
    {Body(st, m) : st \in {"success", "failed", "pending"}, m \in ProviderMsgs}
    \cup
    Transports

ConcurrentLookupResponses ==
    {r \in LookupResponses :
        /\ r.kind = "body" /\ r.dataKind = "present" /\ r.message # UNDEF
        /\ r.status \in {"success", "failed"}}

TransactionResult(r) ==
    [success |-> TRUE, message |-> <<"Payment verified successfully">>,
     data |-> [kind |-> "object", amount |-> NumberToString(r.num),
               txRef |-> r.reference, createdAt |-> r.created_at,
               status |-> r.status, checkoutUrl |-> UNDEF]]

OnLookupResponse(s0, r) ==
    LET s == [s0 EXCEPT !.ca.lastResp = r]
    IN  IF r.kind = "transport" THEN Throw(s, NetworkError(r))
        ELSE IF r.status = "success"
        THEN LET s1 == [s EXCEPT !.ca.lookupOk = TRUE]
             IN  IF r.dataKind = "absent" THEN Throw(s1, TypeError)
                 ELSE LET s2 == OnSuccessHook(s1,
                                  [amount |-> NumberToString(r.num), txRef |-> r.ref,
                                   createdAt |-> r.created_at])
                      IN  IF s2.ca.pc = "raised" THEN s2
                          ELSE Return(s2, TransactionResult(r))
        ELSE IF r.status = "failed"
        THEN HandleError(s, <<"Transaction verification failed: ",
                              IF r.message = UNDEF THEN "Unknown error" ELSE r.message>>)
        ELSE HandleError(s, <<"Transaction verification returned unexpected status: ",
                              Interp(r.status)>>)

TransactionStart(s, refId) ==
    [s EXCEPT !.cl.isLoading = TRUE, !.ca.op = "verifyTransaction",
              !.ca.stack = <<"verifyTransaction">>, !.ca.refId = refId,
              !.ca.nLookup = @ + 1, !.ca.secretSent = config.secretKey,
              !.ca.sent = [NoSent EXCEPT !.url = "chapaVerifyTransactionUrl",
                                         !.auth = SecretKey, !.reference = refId],
              !.ca.pc = "awaitLookup"]

VerifyTransaction(c) ==
    /\ calls[c].pc = "idle"
    /\ \E refId \in Refs : Apply(c, TransactionStart(State(c), refId))

LookupResponse(c) ==
    /\ calls[c].pc = "awaitLookup"
    /\ \E r \in Inputs(LookupResponses, ConcurrentLookupResponses) :
          Apply(c, OnLookupResponse(State(c), r))

(***************************************************************************)
(* createPaymentSchema: the request's constraints.  A mobile number is its *)
(* sequence of digits.                                                     *)
(***************************************************************************)
Digits(m, first, len) ==
    /\ Len(m) = len
    /\ SubSeq(m, 1, Len(first)) = first
    /\ \A i \in 1..Len(m) : m[i] \in 0..9

MobileShape(m) ==
    \/ Digits(m, <<2, 5, 1>>, 12)
    \/ Digits(m, <<0>>, 10)
    \/ Digits(m, <<9>>, 9)
    \/ Digits(m, <<7>>, 9)

TelebirrShape(m) ==
    \/ Digits(m, <<2, 5, 1, 9>>, 12)
    \/ Digits(m, <<0, 9>>, 10)
    \/ Digits(m, <<9>>, 9)

MpesaShapeInternational(m) == Digits(m, <<2, 5, 1, 7>>, 12)

MpesaShape(m) ==
    \/ Digits(m, <<2, 5, 1, 7>>, 12)
    \/ Digits(m, <<0, 7>>, 10)
    \/ Digits(m, <<7>>, 9)

Emails == {"john@example.com"}

Issue(failed, text) == IF failed THEN <<text>> ELSE <<>>

FieldIssuesOptionalType(req) ==
    Issue(~MobileShape(req.mobile), "Please enter a valid Phone Number.")
    \o Issue(req.paymentType \notin Methods \cup {UNDEF}, "Invalid option")
    \o Issue(req.amountType # "number",
             "Invalid input: expected number, received undefined")
    \o Issue(req.amountType = "number" /\ req.amount < 1,
             "Minimum amount must be at least 1")
    \o Issue(req.txRef # UNDEF /\ Len(req.txRef) < 3,
             "txRef must be at least 3 characters long")
    \o Issue(req.email # UNDEF /\ req.email \notin Emails, "Invalid email address")

FieldIssues(req) ==
    Issue(~MobileShape(req.mobile), "Please enter a valid Phone Number.")
    \o Issue(req.paymentType \notin Methods, "Invalid option")
    \o Issue(req.amountType # "number",
             "Invalid input: expected number, received undefined")
    \o Issue(req.amountType = "number" /\ req.amount < 1,
             "Minimum amount must be at least 1")
    \o Issue(req.txRef # UNDEF /\ Len(req.txRef) < 3,
             "txRef must be at least 3 characters long")
    \o Issue(req.email # UNDEF /\ req.email \notin Emails, "Invalid email address")

RefinementIssues(req) ==
    Issue(req.paymentType = "telebirr" /\ ~TelebirrShape(req.mobile),
          "Please enter a valid Telebirr Phone Number.")
    \o Issue(req.paymentType = "mpesa" /\ ~MpesaShape(req.mobile),
             "Please enter a valid Mpesa Phone Number.")

(* An issue of a wrong type or a wrong option is not continuable: the      *)
(* object's refinements are skipped once one was raised.                   *)
Aborted(req) == req.paymentType \notin Methods \/ req.amountType # "number"

ViolationsUnaborted(req) == FieldIssues(req) \o RefinementIssues(req)

Violations(req) ==
    FieldIssues(req) \o (IF Aborted(req) THEN <<>> ELSE RefinementIssues(req))

Mobile0900 == <<0, 9, 0, 0, 1, 2, 3, 4, 5, 6>>

Mobile0700 == <<0, 7, 0, 0, 1, 2, 3, 4, 5, 6>>

Mobile0800 == <<0, 8, 0, 0, 1, 2, 3, 4, 5, 6>>

MobileShort == <<0, 1, 2, 3>>

PlainRequests ==
    [mobile : {Mobile0900, Mobile0700, Mobile0800, MobileShort},
     paymentType : Methods \cup {UNDEF},
     amount : {0, 300}, amountType : {"number"},
     txRef : {UNDEF, "ab", "CUSTOM_REF_123"},
     email : {UNDEF, "john@example.com", "not-an-email"},
     first_name : {UNDEF}, last_name : {UNDEF}, meta : {NoMeta}]

RichRequests ==
    {r \in [mobile : {Mobile0900, Mobile0700},
            paymentType : {"telebirr", "chapa"},
            amount : {0, 300}, amountType : {"number", "undefined"},
            txRef : {"CUSTOM_REF_123"},
            email : {"john@example.com"},
            first_name : {UNDEF, "John"}, last_name : {"Doe"},
            meta : {NoMeta, OrderMeta}] :
        (r.amountType = "undefined") <=> (r.amount = 0)}

Requests == PlainRequests \cup RichRequests

ConcurrentRequests ==
    {r \in PlainRequests :
        /\ r.mobile = Mobile0900 /\ r.paymentType \in {"telebirr", "chapa", "mpesa"}
        /\ r.txRef = "CUSTOM_REF_123" /\ r.email = UNDEF}

(***************************************************************************)
(* createPayment, initiatePayment, submitChapa.                            *)
(***************************************************************************)
HostedResponses ==
    {[Body(st, m) EXCEPT !.dataKind = "present", !.checkout_url = "https://checkout"] :
        st \in {"success", "failed"}, m \in ProviderMsgs \cup {"Hosted Link"}}
    \cup
    {Body(st, m) : st \in {"success", "failed"}, m \in ProviderMsgs}
    \cup
    Transports

ChargeResponses ==
    {[Body(st, m) EXCEPT !.dataKind = "present", !.ref = ref] :
        st \in {"success", "failed"}, m \in ProviderMsgs, ref \in Refs \cup {UNDEF}}
    \cup
    {Body(st, m) : st \in {"success", "failed"}, m \in ProviderMsgs}
    \cup
    Transports

ConcurrentHostedResponses ==
    {r \in HostedResponses :
        r.kind = "body" /\ r.dataKind = "present" /\ r.message = "Hosted Link"}

ConcurrentChargeResponses ==
    {r \in ChargeResponses :
        r.kind = "body" /\ r.dataKind = "present" /\ r.message # UNDEF /\ r.ref # UNDEF}

GenerateRefId == "nanoid(10)"

(* options.generateRefId: the caller's generator when one was configured.  *)
ConfiguredRefId == "custom_ref"

OptionsGenerateRefId ==
    IF config.generateRefId THEN ConfiguredRefId ELSE GenerateRefId

OrEmpty(v) == IF v = UNDEF THEN "" ELSE v

HostedRequest(pd) ==
    [NoSent EXCEPT !.url = "chapaAcceptPaymentUrl", !.auth = SecretKey,
                   !.tx_ref = pd.tx_ref, !.amount = pd.amount,
                   !.currency = pd.currency, !.mobile = pd.mobile,
                   !.email = OrEmpty(pd.email),
                   !.first_name = OrEmpty(pd.first_name),
                   !.last_name = OrEmpty(pd.last_name)]

(* The charge form: one field per entry of the payment record whose value  *)
(* is neither undefined nor null.                                          *)
ChargeRequest(pd) ==
    [NoSent EXCEPT !.url = "chapaUrl", !.auth = "publicKey",
                   !.payment_method = pd.payment_method, !.tx_ref = pd.tx_ref,
                   !.amount = pd.amount, !.currency = pd.currency,
                   !.mobile = pd.mobile, !.email = pd.email,
                   !.first_name = pd.first_name, !.last_name = pd.last_name,
                   !.meta = IF pd.meta = NoMeta THEN <<>> ELSE JsonStringify(pd.meta)]

SubmitChapaUnchecked(s) ==
    [s EXCEPT !.ca.pc = "awaitHosted", !.ca.nHosted = @ + 1,
              !.ca.secretSent = config.secretKey, !.ca.sent = HostedRequest(s.ca.pd)]

SubmitChapa(s) ==
    IF ~config.secretKey
    THEN HandleError(s, <<"Cannot initiate Chapa payment: ", "Secret key is missing">>)
    ELSE [s EXCEPT !.ca.pc = "awaitHosted", !.ca.nHosted = @ + 1,
                   !.ca.secretSent = TRUE, !.ca.sent = HostedRequest(s.ca.pd)]

InitiatePaymentStaleOption(s0) ==
    LET s == [s0 EXCEPT !.ca.stack = <<"initiatePayment">> \o @,
                        !.cl.paymentOption = s0.ca.pd.payment_method]
    IN  IF s0.cl.paymentOption = "chapa"
        THEN SubmitChapa(s)
        ELSE [s EXCEPT !.ca.pc = "awaitCharge", !.ca.nCharge = @ + 1,
                       !.ca.sent = ChargeRequest(s.ca.pd)]

InitiatePayment(s0) ==
    LET s == [s0 EXCEPT !.ca.stack = <<"initiatePayment">> \o @,
                        !.cl.paymentOption = s0.ca.pd.payment_method]
    IN  IF s.cl.paymentOption = "chapa"
        THEN SubmitChapa(s)
        ELSE [s EXCEPT !.ca.pc = "awaitCharge", !.ca.nCharge = @ + 1,
                       !.ca.sent = ChargeRequest(s.ca.pd)]

PaymentDataOf(v) ==
    [amount |-> NumberToString(v.amount),
     mobile |-> v.mobile,
     currency |-> "ETB",
     payment_method |-> IF v.paymentType = UNDEF THEN "telebirr" ELSE v.paymentType,
     tx_ref |-> IF v.txRef = UNDEF THEN GenerateRefId ELSE v.txRef,
     email |-> v.email,
     first_name |-> v.first_name,
     last_name |-> v.last_name,
     meta |-> NoMeta]

ValidationFailed(s) ==
    LET a == HandleError(s, FullMessage(<<"Payment validation failed">>,
                                        Violations(s.ca.req)))
    IN  IF a.ca.pc = "raised" THEN a
        ELSE Return(a, [success |-> FALSE,
                        message |-> IF a.cl.error = UndefMsg
                                    THEN <<"Payment validation failed">>
                                    ELSE a.cl.error,
                        data |-> NullData])

CreateStartUnchecked(s0, req) ==
    LET s == [s0 EXCEPT !.cl.isLoading = TRUE, !.ca.op = "createPayment",
                        !.ca.stack = <<"createPayment">>, !.ca.req = req,
                        !.ca.valid = (Violations(req) = <<>>)]
    IN  InitiatePayment([s EXCEPT !.ca.pd = PaymentDataOf(req)])

CreateStart(s0, req) ==
    LET s == [s0 EXCEPT !.cl.isLoading = TRUE, !.ca.op = "createPayment",
                        !.ca.stack = <<"createPayment">>, !.ca.req = req,
                        !.ca.valid = (Violations(req) = <<>>)]
    IN  IF Violations(req) # <<>>
        THEN ValidationFailed(s)
        ELSE InitiatePayment([s EXCEPT !.ca.pd = PaymentDataOf(req)])

OnHostedResponse(s0, r) ==
    LET s == [s0 EXCEPT !.ca.lastResp = r]
    IN  IF r.kind = "transport" THEN Throw(s, NetworkError(r))
        ELSE IF r.status # "success"
        THEN HandleError(s, <<"Chapa payment initiation failed: ", Interp(r.message)>>)
        ELSE LET s1 == OnSuccessHook([s EXCEPT !.ca.hostedOk = TRUE], NoInfo)
             IN  IF s1.ca.pc = "raised" THEN s1
                 ELSE Return(s1, [success |-> TRUE, message |-> <<r.message>>,
                                  data |-> [NullData EXCEPT !.kind = "object",
                                               !.checkoutUrl = r.checkout_url,
                                               !.status = r.status]])

OnChargeResponseUnchecked(s0, r) ==
    LET s == [s0 EXCEPT !.ca.chargeResp = r]
    IN  IF r.kind = "transport" THEN Throw(s, NetworkError(r))
        ELSE IF r.dataKind = "absent"
        THEN Throw([s EXCEPT !.ca.chargeOk = (r.status = "success")], TypeError)
        ELSE VerifyStart([s EXCEPT !.ca.chargeOk = (r.status = "success")],
                         r.ref, s.ca.pd.payment_method)

OnChargeResponseOwnRef(s0, r) ==
    LET s == [s0 EXCEPT !.ca.chargeResp = r]
    IN  IF r.kind = "transport" THEN Throw(s, NetworkError(r))
        ELSE IF r.status # "success"
        THEN HandleError(s, <<"Transaction initiation failed: ", Interp(r.message)>>)
        ELSE IF r.dataKind = "absent"
        THEN Throw([s EXCEPT !.ca.chargeOk = TRUE], TypeError)
        ELSE VerifyStart([s EXCEPT !.ca.chargeOk = TRUE],
                         s.ca.pd.tx_ref, s.ca.pd.payment_method)

OnChargeResponseSharedOption(s0, r) ==
    LET s == [s0 EXCEPT !.ca.chargeResp = r]
    IN  IF r.kind = "transport" THEN Throw(s, NetworkError(r))
        ELSE IF r.status # "success"
        THEN HandleError(s, <<"Transaction initiation failed: ", Interp(r.message)>>)
        ELSE IF r.dataKind = "absent"
        THEN Throw([s EXCEPT !.ca.chargeOk = TRUE], TypeError)
        ELSE VerifyStart([s EXCEPT !.ca.chargeOk = TRUE], r.ref, s.cl.paymentOption)

OnChargeResponse(s0, r) ==
    LET s == [s0 EXCEPT !.ca.chargeResp = r]
    IN  IF r.kind = "transport" THEN Throw(s, NetworkError(r))
        ELSE IF r.status # "success"
        THEN HandleError(s, <<"Transaction initiation failed: ", Interp(r.message)>>)
        ELSE IF r.dataKind = "absent"
        THEN Throw([s EXCEPT !.ca.chargeOk = TRUE], TypeError)
        ELSE VerifyStart([s EXCEPT !.ca.chargeOk = TRUE],
                         r.ref, s.ca.pd.payment_method)

CreatePayment(c) ==
    /\ calls[c].pc = "idle"
    /\ \E req \in Inputs(Requests, ConcurrentRequests) :
          Apply(c, CreateStart(State(c), req))

HostedResponse(c) ==
    /\ calls[c].pc = "awaitHosted"
    /\ \E r \in Inputs(HostedResponses, ConcurrentHostedResponses) :
          Apply(c, OnHostedResponse(State(c), r))

ChargeResponse(c) ==
    /\ calls[c].pc = "awaitCharge"
    /\ \E r \in Inputs(ChargeResponses, ConcurrentChargeResponses) :
          Apply(c, OnChargeResponse(State(c), r))

Next ==
    \/ \E c \in slots : Resume(c)
    \/ \E c \in slots : CreatePayment(c)
    \/ \E c \in slots : HostedResponse(c)
    \/ \E c \in slots : ChargeResponse(c)
    \/ \E c \in slots : VerifyPayment(c)
    \/ \E c \in slots : VerifyResponse(c)
    \/ \E c \in slots : DelayElapsed(c)
    \/ \E c \in slots : VerifyTransaction(c)
    \/ \E c \in slots : LookupResponse(c)

Spec == Init /\ [][Next]_vars

(***************************************************************************)
(* Sequential use: the caller starts the next operation on the same client *)
(* once the previous one has returned or raised.  The client's fields      *)
(* outlive the call.                                                       *)
(***************************************************************************)
SequentialConfigs ==
    {cf \in Configs :
        /\ cf.paymentOptions = DefaultPaymentOptions /\ ~cf.generateRefId
        /\ cf.hasMaxRetry /\ cf.maxRetry = 1
        /\ ~cf.onFailureRaises}

InitSequential ==
    /\ slots = {1}
    /\ config \in SequentialConfigs
    /\ client = [isLoading |-> FALSE, error |-> UndefMsg,
                 paymentOption |-> config.paymentOptions[1]]
    /\ calls = [c \in slots |-> IdleCall]

Again(c) ==
    /\ calls[c].pc \in {"returned", "raised"}
    /\ calls' = [calls EXCEPT ![c] = IdleCall]
    /\ UNCHANGED <<config, client, slots>>

NextSequential ==
    \/ Next
    \/ \E c \in slots : Again(c)

SpecSequential == InitSequential /\ [][NextSequential]_vars

(***************************************************************************)
(* Concurrent use: two operations on the same client, interleaving at      *)
(* their suspension points.                                                *)
(***************************************************************************)
ConcurrentConfigs ==
    {cf \in Configs :
        /\ cf.paymentOptions = DefaultPaymentOptions /\ ~cf.generateRefId
        /\ cf.hasMaxRetry /\ cf.maxRetry \in 1..MaxRetryBound
        /\ ~cf.onFailureRaises}

FreshClient ==
    [isLoading |-> FALSE, error |-> UndefMsg,
     paymentOption |-> config.paymentOptions[1]]

InitConcurrent ==
    /\ slots = {1, 2}
    /\ config \in ConcurrentConfigs
    /\ client = FreshClient
    /\ calls = [c \in slots |-> IdleCall]

SpecConcurrent == InitConcurrent /\ [][Next]_vars

(***************************************************************************)
(* The same call alone on a fresh client: Alone(ca) replays the request    *)
(* and the responses that the call ca received, to the point ca is at.     *)
(***************************************************************************)
Started(ca) ==
    LET s == [cl |-> FreshClient, ca |-> IdleCall]
    IN  CASE ca.op = "createPayment" -> CreateStart(s, ca.req)
          [] ca.op = "verifyPayment" ->
                VerifyStart([s EXCEPT !.ca.op = "verifyPayment"], ca.refId, ca.method)
          [] ca.op = "verifyTransaction" -> TransactionStart(s, ca.refId)
          [] OTHER -> s

RECURSIVE Replay(_, _)
Replay(s, ca) ==
    LET u == Unwind(s)
    IN  IF u.ca.pc = ca.pc /\ u.ca.nPending = ca.nPending /\ u.ca.stack = ca.stack
        THEN u
        ELSE CASE u.ca.pc = "resumeReturn" -> Replay([u EXCEPT !.ca.pc = "returned"], ca)
               [] u.ca.pc = "resumeThrow" -> Replay([u EXCEPT !.ca.pc = "raised"], ca)
               [] u.ca.pc = "awaitHosted" -> Replay(OnHostedResponse(u, ca.lastResp), ca)
               [] u.ca.pc = "awaitCharge" -> Replay(OnChargeResponse(u, ca.chargeResp), ca)
               [] u.ca.pc = "awaitLookup" -> Replay(OnLookupResponse(u, ca.lastResp), ca)
               [] u.ca.pc = "awaitVerify" ->
                     Replay(OnVerifyResponse(u, IF u.ca.nPending < ca.nPending
                                                THEN PendingResponse
                                                ELSE ca.lastResp), ca)
               [] u.ca.pc = "delay" -> Replay(VerifyLoop([u EXCEPT !.ca.nDelay = @ + 1]), ca)
               [] OTHER -> u

Alone(ca) == Replay(Started(ca), ca).ca

(***************************************************************************)
(* Properties.                                                             *)
(***************************************************************************)
InFlight(ca) == ca.pc \notin {"idle", "returned", "raised"}

(* The call's own work is over: a Result or an exception is on its way to   *)
(* the caller, through the frames that still await it.                      *)
Done(ca) == ca.pc \in {"returned", "raised", "resumeReturn", "resumeThrow"}

Requests4(ca) == ca.nHosted + ca.nCharge + ca.nVerify + ca.nLookup

TimedOutResult == FailResult(<<"Payment verification timed out">>)

PollAnswered(ca) == ca.polling /\ ca.lastResp.kind = "body"

(* C1: polling, success on the k-th poll: when the first k-1 verification   *)
(* responses were pending and the k-th has status success (and carries an   *)
(* amount and a timestamp), exactly k requests were issued (k within the    *)
(* budget), none follows, and the Result returned has success = true and    *)
(* carries that response's amount, reference, timestamp and status.         *)
C1_SuccessOnKthPoll ==
    \A c \in slots :
        LET ca == calls[c]
        IN  (PollAnswered(ca) /\ ca.lastResp.status = "success"
                /\ ca.lastResp.dataKind # "absent") =>
                /\ ca.nVerify = ca.nPending + 1
                /\ ca.nVerify <= MaxRetry
                /\ Done(ca)
                /\ ca.pc = "returned" =>
                      /\ ca.result.success
                      /\ ca.result.data.amount = ca.lastResp.amount
                      /\ ca.result.data.txRef = ca.lastResp.ref
                      /\ ca.result.data.createdAt = ca.lastResp.created_at
                      /\ ca.result.data.status = ca.lastResp.status

(* C2: polling, retry budget: a call never issues more than maxRetry        *)
(* verification requests; when every response was pending it has issued     *)
(* exactly maxRetry requests once it is over, and the Result it returns is  *)
(* the timed-out failure (success false, data null, message 'Payment        *)
(* verification timed out').                                                *)
C2_RetryBudget ==
    \A c \in slots :
        LET ca == calls[c]
        IN  /\ ca.nVerify <= MaxRetry
            /\ (ca.polling /\ Done(ca) /\ ca.nPending = ca.nVerify) =>
                  /\ ca.nVerify = MaxRetry
                  /\ ca.nDelay = MaxRetry
                  /\ ca.pc = "returned" => ca.result = TimedOutResult

C2_Witness ==
    \E c \in slots :
        /\ calls[c].polling /\ calls[c].pc = "returned"
        /\ calls[c].nPending = calls[c].nVerify
        /\ calls[c].nVerify = MaxRetry /\ MaxRetry >= 2
        /\ calls[c].result = TimedOutResult

(* C3: polling, immediate failure: a verification response whose status is  *)
(* not success and whose nested data status is not pending (or whose data   *)
(* block is missing) ends the call at once, at any poll: no request and no  *)
(* delay follows it, and a Result returned is a failure.                    *)
C3_ImmediateFailure ==
    \A c \in slots :
        LET ca == calls[c]
        IN  (PollAnswered(ca) /\ ca.lastResp.status # "success"
                /\ ca.lastResp.dataKind # "pending") =>
                /\ Done(ca)
                /\ ca.nVerify = ca.nPending + 1
                /\ ca.nDelay = ca.nPending
                /\ ca.pc = "returned" =>
                      (~ca.result.success /\ ca.result.data.kind = "null")

C3_Witness ==
    \E c \in slots :
        /\ PollAnswered(calls[c]) /\ calls[c].lastResp.status # "success"
        /\ calls[c].lastResp.dataKind = "absent"
        /\ calls[c].nVerify = 1 /\ MaxRetry >= 2
        /\ calls[c].pc = "returned" /\ ~calls[c].result.success

(* C4: exactly one notification per operation: a call that has returned a   *)
(* Result has invoked exactly one hook, onSuccess once and onFailure never  *)
(* when success = true, onFailure once and onSuccess never otherwise.       *)
C4_OneNotification ==
    \A c \in slots :
        LET ca == calls[c]
        IN  ca.pc = "returned" =>
                /\ ca.nOnSuccess + ca.nOnFailure = 1
                /\ ca.result.success => (ca.nOnSuccess = 1 /\ ca.nOnFailure = 0)
                /\ ~ca.result.success => (ca.nOnFailure = 1 /\ ca.nOnSuccess = 0)

(* C5: no exception crosses a public operation: no call ends by raising to  *)
(* its caller.                                                              *)
C5_NeverRaises == \A c \in slots : calls[c].pc # "raised"

(* C6: validation precedes the network: createPayment with a request that   *)
(* fails validation issues no network request at all, and the Result it     *)
(* returns has success = false and data = null.                             *)
C6_ValidationFirst ==
    \A c \in slots :
        LET ca == calls[c]
        IN  (ca.op = "createPayment" /\ Violations(ca.req) # <<>>) =>
                /\ Requests4(ca) = 0
                /\ Done(ca)
                /\ ca.pc = "returned" =>
                      (~ca.result.success /\ ca.result.data.kind = "null")

C6_Witness ==
    \E c \in slots :
        /\ calls[c].op = "createPayment" /\ calls[c].pc = "returned"
        /\ calls[c].req.paymentType = "mpesa" /\ calls[c].req.amount = 300
        /\ Violations(calls[c].req) = <<"Please enter a valid Mpesa Phone Number.">>
        /\ ~calls[c].result.success

(* C7: hosted-redirect without the secret credential: on a client without   *)
(* secretKey, createPayment with a valid chapa request issues no network    *)
(* request, and the Result it returns has success = false, data = null and  *)
(* a message containing 'Secret key is missing'.                            *)
C7_NoSecretNoRequest ==
    \A c \in slots :
        LET ca == calls[c]
        IN  (ca.op = "createPayment" /\ Violations(ca.req) = <<>>
                /\ ca.req.paymentType = "chapa" /\ ~config.secretKey) =>
                /\ Requests4(ca) = 0
                /\ Done(ca)
                /\ ca.pc = "returned" =>
                      /\ ~ca.result.success
                      /\ ca.result.data.kind = "null"
                      /\ Contains(ca.result.message, "Secret key is missing")

C7_Witness ==
    \E c \in slots :
        /\ calls[c].op = "createPayment" /\ calls[c].pc = "returned"
        /\ calls[c].req.paymentType = "chapa" /\ calls[c].req.mobile = Mobile0900
        /\ Violations(calls[c].req) = <<>> /\ ~config.secretKey
        /\ Contains(calls[c].result.message, "Secret key is missing")

(* C8: createPayment's success flag: for a valid request, the Result has    *)
(* success = true exactly when a terminal success outcome was reached: the  *)
(* hosted initialization answered success (chapa), or the charge answered   *)
(* success and a verification poll answered success (inline methods).       *)
TerminalSuccess(ca) ==
    IF ca.pd.payment_method = "chapa" THEN ca.hostedOk
    ELSE ca.chargeOk /\ ca.pollOk

C8_SuccessFlag ==
    \A c \in slots :
        LET ca == calls[c]
        IN  (ca.op = "createPayment" /\ ca.valid /\ ca.pc = "returned") =>
                (ca.result.success <=> TerminalSuccess(ca))

(* C9: Result shape: a returned Result has success = true exactly when its  *)
(* data is a populated object, and every failure Result has data = null.    *)
C9_ResultShape ==
    \A c \in slots :
        LET ca == calls[c]
        IN  ca.pc = "returned" =>
                /\ ca.result.success <=> ca.result.data.kind = "object"
                /\ ~ca.result.success => ca.result.data.kind = "null"

C9_Witness ==
    \E c \in slots :
        /\ calls[c].pc = "returned" /\ calls[c].op = "createPayment"
        /\ ~calls[c].result.success /\ calls[c].result.data.kind = "null"
        /\ calls[c].nVerify = 2

(* C10: message always populated: the message of a returned Result is a     *)
(* defined string, whatever the provider answered.                          *)
C10_MessageDefined ==
    \A c \in slots :
        calls[c].pc = "returned" => IsDefinedString(calls[c].result.message)

(* C11: transport failures are terminal and classified: once a network      *)
(* round trip of a call has failed (charge, hosted initialization, a poll   *)
(* at any attempt, the lookup) the call is over, so no request follows and  *)
(* a failed poll is not retried; the failure hook was invoked exactly once  *)
(* and the success hook never; the Result it returns is a failure whose     *)
(* message contains the underlying error's message.                         *)
TransportFailure(ca) ==
    IF ca.lastResp.kind = "transport" THEN ca.lastResp
    ELSE IF ca.chargeResp.kind = "transport" THEN ca.chargeResp
    ELSE NoResp

C11_TransportTerminal ==
    \A c \in slots :
        LET ca == calls[c]
            r == TransportFailure(ca)
        IN  r.kind = "transport" =>
                /\ Done(ca)
                /\ ca.nDelay = ca.nPending
                /\ ca.nVerify \in {0, ca.nPending + 1}
                /\ Requests4(ca) = (IF ca.op = "createPayment" /\ ca.nVerify > 0
                                    THEN 1 ELSE 0) + ca.nPending + 1
                /\ ca.nOnFailure = 1 /\ ca.nOnSuccess = 0
                /\ ca.pc = "returned" =>
                      /\ ~ca.result.success
                      /\ ca.result.data.kind = "null"
                      /\ r.message # UNDEF => Contains(ca.result.message, r.message)

(* C12: inline charge rejected: when the charge response of an inline       *)
(* method has a status other than success, no verification request is       *)
(* issued at all, and the Result returned is a failure whose message        *)
(* contains the provider's message.                                         *)
C12_ChargeRejected ==
    \A c \in slots :
        LET ca == calls[c]
        IN  (ca.chargeResp.kind = "body" /\ ca.chargeResp.status # "success") =>
                /\ ca.pd.payment_method \in Methods \ {"chapa"}
                /\ Done(ca)
                /\ ca.nVerify = 0 /\ ~ca.polling /\ ca.nDelay = 0
                /\ ca.pc = "returned" =>
                      /\ ~ca.result.success
                      /\ ca.chargeResp.message # UNDEF =>
                            Contains(ca.result.message, ca.chargeResp.message)

C12_Witness ==
    \E c \in slots :
        /\ calls[c].pc = "returned" /\ calls[c].pd.payment_method = "mpesa"
        /\ calls[c].chargeResp.kind = "body" /\ calls[c].chargeResp.status = "failed"
        /\ calls[c].chargeResp.dataKind = "present"
        /\ Contains(calls[c].result.message, "declined")

C14_Routing ==
    \A c \in slots :
        LET ca == calls[c]
        IN  (ca.op = "createPayment" /\ Violations(ca.req) = <<>>) =>
                /\ ca.nLookup = 0
                /\ ca.req.paymentType = "chapa" =>
                      /\ ca.nHosted <= 1 /\ ca.nCharge = 0 /\ ca.nVerify = 0
                      /\ ca.nHosted = 1 =>
                            (ca.sent.url = "chapaAcceptPaymentUrl"
                               /\ ca.sent.auth = "secretKey")
                /\ ca.req.paymentType # "chapa" =>
                      /\ ca.nHosted = 0 /\ ca.nCharge = 1
                      /\ ca.nVerify = 0 => ca.sent.url = "chapaUrl"
                      /\ ca.nVerify > 0 =>
                            (ca.chargeOk /\ ca.sent.url = "chapaVerifyUrl")

C14_Witness ==
    \E c \in slots :
        /\ calls[c].op = "createPayment" /\ calls[c].req.paymentType = "chapa"
        /\ calls[c].pc = "returned" /\ calls[c].result.success
        /\ calls[c].nHosted = 1 /\ calls[c].sent.auth = "secretKey"

(* C15: direct transaction verification: verifyTransaction issues exactly   *)
(* one lookup request, never polls and never waits a retry delay; when the  *)
(* lookup answered (with its data block), status success gives a success    *)
(* Result, status failed a failure Result containing the provider's         *)
(* message, and any other status a failure Result that names the            *)
(* unexpected status and is not the explicit-failed message.                *)
C15_DirectVerification ==
    \A c \in slots :
        LET ca == calls[c]
            r == ca.lastResp
        IN  ca.op = "verifyTransaction" =>
                /\ ca.nLookup = 1 /\ ca.nVerify = 0 /\ ca.nDelay = 0
                /\ ca.nHosted = 0 /\ ca.nCharge = 0
                /\ (ca.pc = "returned" /\ r.kind = "body" /\ r.dataKind = "present") =>
                      /\ r.status = "success" => ca.result.success
                      /\ r.status = "failed" =>
                            /\ ~ca.result.success
                            /\ r.message # UNDEF => Contains(ca.result.message, r.message)
                      /\ r.status \notin {"success", "failed"} =>
                            /\ ~ca.result.success
                            /\ Contains(ca.result.message, r.status)
                            /\ ~Contains(ca.result.message,
                                         "Transaction verification failed: ")

(* C16: hooks are fire-and-forget: the Result returned depends on the       *)
(* request and the provider's responses only, so whatever the hooks do, a   *)
(* call whose final provider response (hosted initialization, verification  *)
(* poll or lookup) has status success and carries its data block returns a  *)
(* Result with success = true.                                              *)
ProviderConfirmed(ca) ==
    /\ ca.lastResp.kind = "body"
    /\ ca.lastResp.status = "success"
    /\ ca.lastResp.dataKind # "absent"
    /\ ca.hostedOk \/ ca.pollOk \/ ca.lookupOk

C16_HooksFireAndForget ==
    \A c \in slots :
        (calls[c].pc = "returned" /\ ProviderConfirmed(calls[c])) =>
            calls[c].result.success

(* C17: configured reference generator: when the request supplies no        *)
(* transaction reference, the tx reference of the payment record is the     *)
(* value of the configured generateRefId (the default generator's when none *)
(* was configured); when the request supplies one, that reference is used.  *)
C17_ConfiguredGenerator ==
    \A c \in slots :
        LET ca == calls[c]
        IN  (ca.op = "createPayment" /\ ca.valid) =>
                /\ ca.req.txRef = UNDEF => ca.pd.tx_ref = OptionsGenerateRefId
                /\ ca.req.txRef # UNDEF => ca.pd.tx_ref = ca.req.txRef
                /\ Requests4(ca) > 0 /\ ca.nVerify = 0 =>
                      ca.sent.tx_ref = ca.pd.tx_ref

(* C18 (as the code has it): a request that specifies no payment method is  *)
(* rejected by validation: no payment record is built, no request is        *)
(* issued, and the Result returned is a failure with data = null whose      *)
(* message reports the invalid option.                                      *)
OtherwiseValid(req) == Violations([req EXCEPT !.paymentType = "telebirr"]) = <<>>

C18_MethodRequired ==
    \A c \in slots :
        LET ca == calls[c]
        IN  (ca.op = "createPayment" /\ ca.req.paymentType = UNDEF) =>
                /\ ~ca.valid /\ ca.pd = NoPaymentData
                /\ Requests4(ca) = 0 /\ ~ca.polling
                /\ Done(ca)
                /\ ca.pc = "returned" =>
                      /\ ~ca.result.success /\ ca.result.data.kind = "null"
                      /\ Contains(ca.result.message, "Invalid option")

C18_Witness ==
    \E c \in slots :
        /\ calls[c].op = "createPayment" /\ calls[c].pc = "returned"
        /\ calls[c].req.paymentType = UNDEF /\ OtherwiseValid(calls[c].req)
        /\ calls[c].req.mobile = Mobile0900 /\ calls[c].req.amount = 300
        /\ calls[c].result.message = <<"Payment validation failed", ": ", "Invalid option">>

(* C18 (as stated): a request that is otherwise valid and specifies no      *)
(* payment method is not rejected and is processed as a telebirr payment    *)
(* on the inline strategy.                                                  *)
C18_DefaultTelebirr ==
    \A c \in slots :
        LET ca == calls[c]
        IN  (ca.op = "createPayment" /\ ca.req.paymentType = UNDEF
                /\ OtherwiseValid(ca.req)) =>
                /\ ca.valid
                /\ ca.pd.payment_method = "telebirr"
                /\ ca.nCharge = 1 /\ ca.nHosted = 0

(* C19: allowed payment methods: createPayment with a payment method        *)
(* outside the configured paymentOptions issues no charge and no            *)
(* hosted-initialization request.                                           *)
C19_AllowedMethods ==
    \A c \in slots :
        LET ca == calls[c]
        IN  (ca.op = "createPayment"
                /\ ca.req.paymentType \notin Range(config.paymentOptions)) =>
                (ca.nCharge = 0 /\ ca.nHosted = 0)

(* C20: transaction verification requires the secret key: on a client       *)
(* without secretKey, verifyTransaction issues no lookup request, and the   *)
(* Result it returns is a failure.                                          *)
C20_LookupNeedsSecret ==
    \A c \in slots :
        LET ca == calls[c]
        IN  (ca.op = "verifyTransaction" /\ ~config.secretKey) =>
                /\ ca.nLookup = 0
                /\ ca.pc = "returned" => ~ca.result.success

(* C24: strictly sequential polling: a verification request is issued only  *)
(* when none is in flight; the first one opens the loop, and attempt N+1 is *)
(* issued only by the step that ends a retry delay, which was begun after   *)
(* attempt N's response was classified as pending: N delays have then       *)
(* elapsed for N requests and N pending responses.                          *)
C24_NextPoll(c) ==
    calls'[c].nVerify # calls[c].nVerify =>
        /\ calls'[c].nVerify = calls[c].nVerify + 1
        /\ calls[c].pc # "awaitVerify" /\ calls'[c].pc = "awaitVerify"
        /\ calls[c].nVerify > 0 =>
              /\ calls[c].pc = "delay"
              /\ calls[c].lastResp.kind = "body" /\ IsPending(calls[c].lastResp)
              /\ calls[c].nPending = calls[c].nVerify
              /\ calls'[c].nDelay = calls[c].nDelay + 1
              /\ calls'[c].nDelay = calls[c].nVerify

C24_SequentialPolling == [][\A c \in slots : C24_NextPoll(c)]_vars

C24_Witness ==
    \E c \in slots :
        /\ calls[c].pc = "awaitVerify"
        /\ calls[c].nVerify = 3 /\ calls[c].nPending = 2 /\ calls[c].nDelay = 2

(* C29: one delay per pending response: once a polling call is over, the    *)
(* number of retry delays it has waited equals the number of pending        *)
(* responses it received (while a delay runs, that delay is not counted     *)
(* yet); the timed-out Result is returned only after the delay that follows *)
(* the last pending response, and no request follows that response.         *)
C29_DelayPerPending ==
    \A c \in slots :
        LET ca == calls[c]
        IN  /\ ca.pc = "delay" => ca.nDelay + 1 = ca.nPending
            /\ ca.pc # "delay" => ca.nDelay = ca.nPending
            /\ (ca.polling /\ ca.pc = "returned" /\ ca.result = TimedOutResult) =>
                  /\ ca.nPending = MaxRetry /\ ca.nDelay = MaxRetry
                  /\ ca.nVerify = MaxRetry

C29_Witness ==
    \E c \in slots :
        /\ calls[c].pc = "returned" /\ calls[c].result = TimedOutResult
        /\ calls[c].nVerify = 2 /\ calls[c].nPending = 2 /\ calls[c].nDelay = 2

(* C26: success notification matches the Result: when a verification        *)
(* (verifyPayment, the polling inside createPayment, verifyTransaction)     *)
(* returns a Result with success = true, the amount, reference and          *)
(* timestamp passed to the onSuccess hook equal the amount, txRef and       *)
(* createdAt of the Result's data.                                          *)
NotifiedAsReturned(ca) ==
    /\ ca.nOnSuccess = 1
    /\ ca.info.amount = ca.result.data.amount
    /\ ca.info.txRef = ca.result.data.txRef
    /\ ca.info.createdAt = ca.result.data.createdAt

C26_NotificationMatches ==
    \A c \in slots :
        LET ca == calls[c]
        IN  (ca.pc = "returned" /\ ca.result.success /\ (ca.pollOk \/ ca.lookupOk)) =>
                NotifiedAsReturned(ca)

(* C22 (as the code has it): the request {mobile: "0700123456", amount: 300, *)
(* paymentType: "mpesa"} passes validation, its number matching the mpesa   *)
(* pattern's 07 alternative: the charge request is issued and any failure   *)
(* Result is not a validation failure.  An mpesa request whose number fails  *)
(* the mpesa pattern ("0900123456") is rejected before any network call,    *)
(* with a failure Result that reports the mpesa phone number.               *)
MpesaScenario(req) ==
    /\ req.mobile = Mobile0700 /\ req.amount = 300 /\ req.paymentType = "mpesa"
    /\ req.txRef = UNDEF /\ req.email = UNDEF

C21_InlineRoundTrip ==
    \A c \in slots :
        LET ca == calls[c]
        IN  (ca.op = "createPayment" /\ ca.pc = "awaitCharge") =>
                /\ ca.sent.url = "chapaUrl"
                /\ ca.sent.mobile = ca.req.mobile
                /\ ca.sent.amount = NumberToString(ca.req.amount)
                /\ ca.sent.payment_method = ca.req.paymentType
                /\ ca.req.txRef # UNDEF => ca.sent.tx_ref = ca.req.txRef
                /\ ca.sent.email = ca.req.email
                /\ ca.sent.first_name = ca.req.first_name
                /\ ca.sent.last_name = ca.req.last_name
                /\ ca.req.meta # NoMeta => ca.sent.meta = JsonStringify(ca.req.meta)

(* C23: all violations reported: when a request violates validation         *)
(* constraints, the message of the failure Result contains the description  *)
(* of every violated constraint.                                            *)
C23_AllViolations ==
    \A c \in slots :
        LET ca == calls[c]
        IN  (ca.op = "createPayment" /\ ca.pc = "returned"
                /\ ViolationsUnaborted(ca.req) # <<>>) =>
                /\ ~ca.result.success
                /\ \A v \in Range(ViolationsUnaborted(ca.req)) :
                      Contains(ca.result.message, v)

(* C27: isLoading tracks the operation in flight: isLoading is true at      *)
(* every point between the start of a public operation and its return to   *)
(* the caller, and false when no operation is in flight.                    *)
C27_LoadingTracksCall ==
    /\ \A c \in slots : InFlight(calls[c]) => client.isLoading
    /\ (\A c \in slots : ~InFlight(calls[c])) => ~client.isLoading

(* C25: last error retained: under sequential use, whenever an operation    *)
(* returns a Result with success = false, the client's error field equals   *)
(* that Result's message at the moment of return.                           *)
C25_LastErrorRetained ==
    \A c \in slots :
        (calls[c].pc = "returned" /\ ~calls[c].result.success) =>
            /\ client.error = calls[c].result.message
            /\ calls[c].result.message # UndefMsg

C25_Witness ==
    \E c \in slots :
        /\ calls[c].op = "verifyPayment" /\ calls[c].pc = "returned"
        /\ client.paymentOption = "chapa"
        /\ calls[c].result = TimedOutResult
        /\ client.error = <<"Payment verification timed out">>

(* C28: Result isolation under interleaving: when operations interleave on  *)
(* one client, each is routed by its own request's payment method and       *)
(* returns the Result determined by its own request and responses: at every *)
(* point, a call has issued the requests, invoked the hooks and produced    *)
(* the Result that the same call produces alone on a fresh client.          *)
C28_Isolation ==
    \A c \in slots :
        /\ calls[c] = Alone(calls[c])
        /\ calls[c].nHosted > 0 => calls[c].req.paymentType = "chapa"
        /\ calls[c].nCharge > 0 => calls[c].req.paymentType \in Methods \ {"chapa"}

C28_Witness ==
    /\ calls[2].op = "createPayment" /\ calls[2].pc = "awaitHosted"
    /\ calls[1].op = "createPayment" /\ calls[1].req.paymentType = "telebirr"
    /\ calls[1].pc = "returned" /\ calls[1].result.success
    /\ client.paymentOption = "telebirr" /\ ~client.isLoading

====
